---- MODULE Spec2Model ----
(***************************************************************************)
(* Model of db/large_data_handler.cc: the threshold policy                 *)
(* (large_data_handler), its limiter (_sem, a FIFO counting semaphore),    *)
(* the flip-then-drain stop(), and the CQL recording backend               *)
(* (cql_table_large_data_handler: try_record, delete_large_data_entries).  *)
(*                                                                         *)
(* Every policy call (maybe_record_large_partitions or                     *)
(* maybe_delete_large_data_entries) gets the next call id; every stop()    *)
(* call gets the next stop id.  A call spawns tasks, one per with_sem():   *)
(* slot "record" for the partition record, one slot per tracking table     *)
(* for the deletes.                                                        *)
(***************************************************************************)
EXTENDS Integers, Sequences, FiniteSets, TLC

\* ---------------------------------------------------------------- bounds
\* Number of policy calls (maybe_record / maybe_delete) in a behaviour.
NumCalls == 2
\* Number of stop() calls in a behaviour.
NumStops == 2
\* Limiter capacity.  The header sets max_concurrency = 16; the model keeps
\* the capacity small so that a single behaviour saturates it.
max_concurrency == 2
\* Width of the unsigned "64-bit" magnitudes of the model.
Bits == 12

UINT64_MAX == 2^Bits - 1

\* ---------------------------------------------------------------- inputs
\* The thresholds the handler is constructed with (lines 26-30).
PartitionThreshold == 1000
RowsCountThreshold == 10

\* The (partition_size, rows) arguments of maybe_record_large_partitions: at
\* both thresholds, over the size threshold only, over the row-count
\* threshold only, and over both with the largest magnitudes.
PartitionInputs ==
    { <<1000, 10>>, <<1500, 5>>, <<1000, 11>>, <<UINT64_MAX, UINT64_MAX - 1>> }

ldt == {"partition_size", "rows_in_partition", "row_size", "cell_size"}

\* sst->get_large_data_stat(type): no entry, an entry below the threshold,
\* an entry above the threshold.
MkSST(p, rip, r, c) ==
    [partition_size |-> p, rows_in_partition |-> rip, row_size |-> r, cell_size |-> c]

NoSST == MkSST("absent", "absent", "absent", "absent")

SSTables ==
    { NoSST,
      MkSST("absent", "absent", "above", "absent"),
      MkSST("above", "absent", "below", "above"),
      MkSST("below", "above", "below", "below"),
      MkSST("above", "above", "above", "above") }

\* The arguments of record_large_rows and record_large_cells: the clustering
\* key pointer (NoKey: null), the column definition, the row or cell size.
NoKey == "nullptr"
ClusteringKeys == {NoKey, "ck1", "ck2"}
Columns == {[name |-> "c1", is_atomic |-> TRUE], [name |-> "c2", is_atomic |-> FALSE]}
RecordSizes == {1, 1500, UINT64_MAX}

Slots == {"record", "LARGE_PARTITIONS", "LARGE_ROWS", "LARGE_CELLS"}
DeleteSlots == <<"LARGE_PARTITIONS", "LARGE_ROWS", "LARGE_CELLS">>
DeleteSlotSet == {"LARGE_PARTITIONS", "LARGE_ROWS", "LARGE_CELLS"}

CallIds == 1..NumCalls
StopIds == 1..NumStops

VARIABLES
    _partition_threshold_bytes,  \* configured thresholds
    _rows_count_threshold,
    _running,                    \* large_data_handler::_running
    _sem,                        \* [count, wait_list]: the limiter
    _stats,                      \* _stats.partitions_bigger_than_threshold
    qctx,                        \* db::qctx is non-null
    ncalls,                      \* policy calls made so far
    nstops,                      \* stop() calls made so far
    call,                        \* call[i]: the i-th policy call
    task,                        \* task[i][slot]: the with_sem() tasks of call i
    stopc,                       \* stopc[k]: the k-th stop() call
    crashed,                     \* "no", "assert" (assertion failed), "segv"
    bk                           \* a record operation called on the backend

vars == <<_partition_threshold_bytes, _rows_count_threshold, _running, _sem, _stats,
          qctx, ncalls, nstops, call, task, stopc, crashed, bk>>

\* ------------------------------------------------------------ the limiter
\* seastar::semaphore: wait(nr) takes the units at once only when they are
\* available and nobody is queued; otherwise it queues in FIFO order.
TaskWho(i, s) == [kind |-> "task", id |-> i, slot |-> s]
StopWho(k) == [kind |-> "stop", id |-> k, slot |-> "stop"]

may_proceed(sem, nr) == sem.count >= nr /\ sem.wait_list = <<>>

\* Result of wait(nr) by who: the semaphore afterwards and whether the
\* returned future is ready.
sem_wait(sem, who, nr) ==
    IF may_proceed(sem, nr)
    THEN [sem |-> [sem EXCEPT !.count = @ - nr], ready |-> TRUE]
    ELSE [sem |-> [sem EXCEPT !.wait_list = Append(@, [who |-> who, nr |-> nr])],
          ready |-> FALSE]

\* signal() grants the queued waiters from the front while units suffice.
RECURSIVE grant_waiters(_, _)
grant_waiters(sem, woken) ==
    IF sem.wait_list # <<>> /\ sem.count >= Head(sem.wait_list).nr
    THEN grant_waiters([count |-> sem.count - Head(sem.wait_list).nr,
                        wait_list |-> Tail(sem.wait_list)],
                       woken \cup {Head(sem.wait_list).who})
    ELSE [sem |-> sem, woken |-> woken]

sem_signal(sem, nr) == grant_waiters([sem EXCEPT !.count = @ + nr], {})

\* ---------------------------------------------------------------- tasks
\* st: "none", "waiting" (queued on _sem), "granted" (holds its unit, func not
\* yet called), "inflight" (execute_cql pending), "done", "failed" (resolved
\* with an exception).  units are the limiter units it holds, acquired those
\* it ever got.  invoked counts the calls of the backend operation,
\* args are the arguments it got, cql counts execute_cql calls, fields and
\* values are the extra columns and the values bound after the common ones.
NoTask == [st |-> "none", units |-> 0, acquired |-> 0, invoked |-> 0, args |-> <<>>, noqctx |-> FALSE,
           cql |-> 0, fields |-> <<>>, values |-> <<>>, writelog |-> 0, faillog |-> 0,
           outcome |-> "none"]

NoCall == [op |-> "none", state |-> "idle", size |-> 0, rows |-> 0, sst |-> NoSST,
           above_threshold |-> [size |-> FALSE, rows |-> FALSE],
           verdict |-> [size |-> FALSE, rows |-> FALSE]]

\* state: "idle", "ready" (returned at once: not running), "draining",
\* "drained".  For a stop() that found the handler running, seen is the
\* number of policy calls made before it and queued tells whether the
\* limiter had waiters when it was called.
\* A record operation called straight on the backend: its arguments, whether
\* the query context was missing, what try_record did (r) and how far it is:
\* "none", "inflight" (execute_cql pending), "done", "failed".
NoBk == [op |-> "none", state |-> "none"]

NoStop == [state |-> "idle", seen |-> 0, queued |-> FALSE]

Init ==
    /\ _partition_threshold_bytes = PartitionThreshold
    /\ _rows_count_threshold = RowsCountThreshold
    /\ _running = FALSE
    /\ _sem = [count |-> max_concurrency, wait_list |-> <<>>]
    /\ _stats = 0
    /\ qctx = TRUE
    /\ ncalls = 0
    /\ nstops = 0
    /\ call = [i \in CallIds |-> NoCall]
    /\ task = [i \in CallIds |-> [s \in Slots |-> NoTask]]
    /\ stopc = [k \in StopIds |-> NoStop]
    /\ crashed = "no"
    /\ bk = NoBk

\* running(): the accessor of _running.
running == _running

\* with_sem(func) for the task (i, s): get_units(_sem, 1), then func.  st is
\* the pair [sem, task] it starts from.
with_sem(st, i, s) ==
    LET w == sem_wait(st.sem, TaskWho(i, s), 1)
    IN [sem |-> w.sem,
        task |-> [st.task EXCEPT ![i][s] =
                    [NoTask EXCEPT !.st = IF w.ready THEN "granted" ELSE "waiting",
                                   !.units = IF w.ready THEN 1 ELSE 0,
                                   !.acquired = IF w.ready THEN 1 ELSE 0]]]

\* What a signal() does to the tasks and stop() calls it wakes.
WakeTasks(t, woken) ==
    [i \in CallIds |-> [s \in Slots |->
        IF TaskWho(i, s) \in woken
        THEN [t[i][s] EXCEPT !.st = "granted", !.units = 1, !.acquired = @ + 1]
        ELSE t[i][s]]]

WakeStops(sc, woken) ==
    [k \in StopIds |-> IF StopWho(k) \in woken THEN [sc[k] EXCEPT !.state = "drained"]
                                         ELSE sc[k]]

\* ---------------------------------------------------- start() and stop()
start ==
    /\ crashed = "no"
    /\ _running' = TRUE
    /\ UNCHANGED <<bk, _partition_threshold_bytes, _rows_count_threshold, _sem, _stats, qctx,
                   ncalls, nstops, call, task, stopc, crashed>>

\* The units stop() waits for (line 61).
stop_wait_units_over == max_concurrency + 1
stop_wait_units_short == max_concurrency - 1
stop_wait_units == max_concurrency

\* "if (!running())" (line 57): stop() has nothing to do.
stop_not_running_never == FALSE
stop_not_running == ~running

stop(k) ==
    /\ crashed = "no"
    /\ k = nstops + 1
    /\ nstops' = k
    /\ IF stop_not_running
       THEN /\ stopc' = [stopc EXCEPT ![k] = [NoStop EXCEPT !.state = "ready"]]
            /\ UNCHANGED <<_running, _sem>>
       ELSE LET w == sem_wait(_sem, StopWho(k), stop_wait_units)
            IN /\ _running' = FALSE
               /\ _sem' = w.sem
               /\ stopc' = [stopc EXCEPT ![k] =
                              [state |-> IF w.ready THEN "drained" ELSE "draining",
                               seen |-> ncalls, queued |-> _sem.wait_list # <<>>]]
    /\ UNCHANGED <<bk, _partition_threshold_bytes, _rows_count_threshold, _stats, qctx,
                   ncalls, call, task, crashed>>

\* ------------------------------------------ maybe_record_large_partitions
\* partition_above_threshold{partition_size > ..., rows > ...} (line 38).
above_threshold_incl(partition_size, rows) ==
    [size |-> partition_size >= _partition_threshold_bytes,
     rows |-> rows >= _rows_count_threshold]
above_threshold_of(partition_size, rows) ==
    [size |-> partition_size > _partition_threshold_bytes,
     rows |-> rows > _rows_count_threshold]

\* ++_stats.partitions_bigger_than_threshold under "if (above_threshold.size)"
\* (lines 39-41).
stats_after_any(stats, at) == IF at.size \/ at.rows THEN stats + 1 ELSE stats
stats_after_rows(stats, at) == IF at.rows THEN stats + 1 ELSE stats
stats_after(stats, at) == IF at.size THEN stats + 1 ELSE stats

\* "if (above_threshold.size || above_threshold.rows)" (line 42).
needs_record(at) == at.size \/ at.rows

\* The record is run under the limiter: with_sem([...] { return
\* record_large_partitions(...); }) (lines 43-44).
record_submit_unguarded(st, i) ==
    [sem |-> st.sem,
     task |-> [st.task EXCEPT ![i]["record"] = [NoTask EXCEPT !.st = "granted"]]]
record_submit(st, i) == with_sem(st, i, "record")

ZeroVerdict == [size |-> FALSE, rows |-> FALSE]

\* assert(running()) (lines 37 and 71): TRUE when the call may go on.
assert_running_off == TRUE
assert_running == running

maybe_record_large_partitions(i, partition_size, rows) ==
    /\ crashed = "no"
    /\ i = ncalls + 1
    /\ ncalls' = i
    /\ IF ~assert_running
       THEN /\ crashed' = "assert"
            /\ call' = [call EXCEPT ![i] = [NoCall EXCEPT !.op = "record",
                            !.state = "aborted", !.size = partition_size, !.rows = rows]]
            /\ UNCHANGED <<_stats, _sem, task>>
       ELSE LET at == above_threshold_of(partition_size, rows)
                sub == record_submit([sem |-> _sem, task |-> task], i)
            IN /\ _stats' = stats_after(_stats, at)
               /\ IF needs_record(at)
                  THEN /\ _sem' = sub.sem
                       /\ task' = sub.task
                       /\ call' = [call EXCEPT ![i] = [NoCall EXCEPT !.op = "record",
                                       !.state = "pending", !.size = partition_size,
                                       !.rows = rows, !.above_threshold = at]]
                  ELSE /\ call' = [call EXCEPT ![i] = [NoCall EXCEPT !.op = "record",
                                       !.state = "returned", !.size = partition_size,
                                       !.rows = rows, !.above_threshold = at,
                                       !.verdict = ZeroVerdict]]
                       /\ UNCHANGED <<_sem, task>>
               /\ UNCHANGED crashed
    /\ UNCHANGED <<bk, _partition_threshold_bytes, _rows_count_threshold, _running, qctx,
                   nstops, stopc>>

\* ---------------------------------------- maybe_delete_large_data_entries
\* The above_threshold lambda (lines 75-78): entry && entry->above_threshold.
above_threshold_any_entry(sst, type) == sst[type] # "absent"
above_threshold(sst, type) == sst[type] = "above"

\* The tracking tables a delete is issued against (lines 81, 87, 93).
delete_wanted_swapped(sst, s) ==
    CASE s = "LARGE_PARTITIONS" ->
            above_threshold(sst, "partition_size") \/ above_threshold(sst, "rows_in_partition")
      [] s = "LARGE_ROWS" -> above_threshold(sst, "cell_size")
      [] s = "LARGE_CELLS" -> above_threshold(sst, "row_size")
      [] OTHER -> FALSE
delete_wanted(sst, s) ==
    CASE s = "LARGE_PARTITIONS" ->
            above_threshold(sst, "partition_size") \/ above_threshold(sst, "rows_in_partition")
      [] s = "LARGE_ROWS" -> above_threshold(sst, "row_size")
      [] s = "LARGE_CELLS" -> above_threshold(sst, "cell_size")
      [] OTHER -> FALSE

\* The three with_sem() calls in program order (lines 80-97).  With no
\* category flagged the three futures are ready and so is when_all's: the
\* call returns at once.
RECURSIVE delete_submit(_, _, _, _)
delete_submit(st, i, sst, n) ==
    IF n > Len(DeleteSlots) THEN st
    ELSE delete_submit(IF delete_wanted(sst, DeleteSlots[n])
                       THEN with_sem(st, i, DeleteSlots[n]) ELSE st,
                       i, sst, n + 1)

maybe_delete_large_data_entries(i, sst) ==
    /\ crashed = "no"
    /\ i = ncalls + 1
    /\ ncalls' = i
    /\ IF ~assert_running
       THEN /\ crashed' = "assert"
            /\ call' = [call EXCEPT ![i] = [NoCall EXCEPT !.op = "delete",
                            !.state = "aborted", !.sst = sst]]
            /\ UNCHANGED <<_sem, task>>
       ELSE LET sub == delete_submit([sem |-> _sem, task |-> task], i, sst, 1)
            IN /\ _sem' = sub.sem
               /\ task' = sub.task
               /\ call' = [call EXCEPT ![i] = [NoCall EXCEPT !.op = "delete",
                               !.state = IF \A s \in DeleteSlotSet : sub.task[i][s].st = "none"
                                         THEN "returned" ELSE "pending",
                               !.sst = sst]]
               /\ UNCHANGED crashed
    /\ UNCHANGED <<bk, _partition_threshold_bytes, _rows_count_threshold, _running, _stats,
                   qctx, nstops, stopc>>

\* ------------------------------------------------- the recording backend
\* int64_t(x) of an unsigned magnitude (lines 134, 145, 147, 157, 159).
to_int64(x) == IF x >= 2^(Bits - 1) THEN x - 2^Bits ELSE x

\* The loop of lines 112-115: one ", ?" per extra field.
RECURSIVE extra_values(_)
extra_values(extra_fields) ==
    IF extra_fields = <<>> THEN <<>> ELSE <<"?">> \o extra_values(Tail(extra_fields))

\* try_record (lines 101-131) up to the execute_cql call: nothing at all
\* without the query context; otherwise the "Writing large ..." line and one
\* INSERT.  columns and placeholders are those of the statement of lines
\* 116-117, bound the values handed to execute_cql at line 125; fields and
\* values are their category-specific part (the size, then args).
try_record_always(large_table, size, extra_fields, args) ==
    [issued |-> TRUE, table |-> large_table, fields |-> extra_fields,
     values |-> <<size>> \o args, writelog |-> 1,
     columns |-> <<"keyspace_name", "table_name", "sstable_name", <<large_table, "_size">>,
                   "partition_key", "compaction_time">> \o extra_fields,
     placeholders |-> <<"?", "?", "?", "?", "?", "?">> \o extra_values(extra_fields),
     bound |-> <<"ks_name", "cf_name", "sstable_name", size, "pk_str", "timestamp">>
               \o args]
try_record(large_table, size, extra_fields, args) ==
    IF ~qctx
    THEN [issued |-> FALSE, table |-> large_table, fields |-> <<>>, values |-> <<>>,
          writelog |-> 0, columns |-> <<>>, placeholders |-> <<>>, bound |-> <<>>]
    ELSE [issued |-> TRUE, table |-> large_table, fields |-> extra_fields,
          values |-> <<size>> \o args, writelog |-> 1,
          columns |-> <<"keyspace_name", "table_name", "sstable_name",
                        <<large_table, "_size">>, "partition_key", "compaction_time">>
                      \o extra_fields,
          placeholders |-> <<"?", "?", "?", "?", "?", "?">> \o extra_values(extra_fields),
          bound |-> <<"ks_name", "cf_name", "sstable_name", size, "pk_str", "timestamp">>
                    \o args]

\* record_large_partitions (lines 133-135).
record_large_partitions(partition_size, rows) ==
    try_record("partition", to_int64(partition_size), <<"rows">>, <<to_int64(rows)>>)

\* key_to_str (lines 64-68): the key printed to text.
key_to_str(key) == [text |-> key]

\* data_value::make_null(utf8_type) (lines 147 and 159).
make_null == [null |-> "utf8_type"]

\* record_large_rows (lines 151-161): clustering_key is NoKey for a null
\* pointer (the static row).  desc and extra_path only feed the log line.
record_large_rows(clustering_key, row_size) ==
    IF clustering_key # NoKey
    THEN LET ck_str == key_to_str(clustering_key)
         IN [desc |-> "row", extra_path |-> <<ck_str>>]
            @@ try_record("row", to_int64(row_size), <<"clustering_key">>, <<ck_str>>)
    ELSE [desc |-> "static row", extra_path |-> <<>>]
         @@ try_record("row", to_int64(row_size), <<"clustering_key">>, <<make_null>>)

\* record_large_cells (lines 137-149).
record_large_cells_swapped(clustering_key, cdef, cell_size) ==
    LET column_name == [text |-> cdef.name]
        cell_type == IF cdef.is_atomic THEN "cell" ELSE "collection"
        extra_fields == <<"clustering_key", "column_name">>
    IN IF clustering_key # NoKey
       THEN LET ck_str == key_to_str(clustering_key)
            IN [desc |-> cell_type, extra_path |-> <<ck_str, column_name>>]
               @@ try_record("cell", to_int64(cell_size), extra_fields,
                             <<column_name, ck_str>>)
       ELSE [desc |-> cell_type, extra_path |-> <<column_name>>]
            @@ try_record("cell", to_int64(cell_size), extra_fields,
                          <<column_name, make_null>>)
record_large_cells(clustering_key, cdef, cell_size) ==
    LET column_name == [text |-> cdef.name]
        cell_type == IF cdef.is_atomic THEN "cell" ELSE "collection"
        extra_fields == <<"clustering_key", "column_name">>
    IN IF clustering_key # NoKey
       THEN LET ck_str == key_to_str(clustering_key)
            IN [desc |-> cell_type, extra_path |-> <<ck_str, column_name>>]
               @@ try_record("cell", to_int64(cell_size), extra_fields,
                             <<ck_str, column_name>>)
       ELSE [desc |-> cell_type, extra_path |-> <<column_name>>]
            @@ try_record("cell", to_int64(cell_size), extra_fields,
                          <<make_null, column_name>>)

\* .handle_exception(...) after execute_cql (lines 127-130 and 169-172): how
\* the future resolves and how many failure lines are logged.
handle_exception_rethrow(ok) ==
    [resolved |-> IF ok THEN "done" ELSE "failed", faillog |-> 0]
handle_exception(ok) ==
    [resolved |-> "done", faillog |-> IF ok THEN 0 ELSE 1]

\* The units of with_sem() are dropped when func's future resolves
\* (func().finally): signal(1), which may wake queued waiters.
Release(i, s, t) ==
    LET sig == sem_signal(_sem, 1)
    IN /\ _sem' = sig.sem
       /\ task' = WakeTasks([task EXCEPT ![i][s] = t], sig.woken)
       /\ stopc' = WakeStops(stopc, sig.woken)

\* The continuation of get_units() for the record task: func is called.
run_record(i) ==
    /\ crashed = "no"
    /\ task[i]["record"].st = "granted"
    /\ LET r == record_large_partitions(call[i].size, call[i].rows)
           t == [task[i]["record"] EXCEPT !.invoked = @ + 1, !.noqctx = ~qctx,
                                          !.args = <<call[i].size, call[i].rows>>]
       IN IF r.issued
          THEN /\ task' = [task EXCEPT ![i]["record"] =
                             [t EXCEPT !.st = "inflight", !.cql = @ + 1,
                                       !.values = r.values, !.fields = r.fields,
                                       !.writelog = @ + r.writelog]]
               /\ UNCHANGED <<_sem, stopc>>
          ELSE Release(i, "record", [t EXCEPT !.st = "done", !.units = 0])
    /\ UNCHANGED <<bk, _partition_threshold_bytes, _rows_count_threshold, _running, _stats,
                   qctx, ncalls, nstops, call, crashed>>

\* delete_large_data_entries (lines 163-173) up to the execute_cql call.  It
\* dereferences db::qctx unchecked: with a null qctx the behaviour is
\* undefined, here either a fault or a call through the invalid object.
run_delete(i, s) ==
    /\ crashed = "no"
    /\ s \in DeleteSlotSet
    /\ task[i][s].st = "granted"
    /\ \/ /\ task' = [task EXCEPT ![i][s] =
                        [@ EXCEPT !.st = "inflight", !.invoked = @ + 1, !.noqctx = ~qctx,
                                  !.cql = @ + 1]]
          /\ UNCHANGED crashed
       \/ /\ ~qctx
          /\ task' = [task EXCEPT ![i][s] =
                        [@ EXCEPT !.invoked = @ + 1, !.noqctx = TRUE]]
          /\ crashed' = "segv"
    /\ UNCHANGED <<bk, _partition_threshold_bytes, _rows_count_threshold, _running, _sem,
                   _stats, qctx, ncalls, nstops, call, stopc>>

\* execute_cql resolves, with success (ok) or with an exception.
execute_cql_done(i, s, ok) ==
    /\ crashed = "no"
    /\ task[i][s].st = "inflight"
    /\ LET h == handle_exception(ok)
       IN Release(i, s, [task[i][s] EXCEPT !.st = h.resolved, !.units = 0,
                                           !.faillog = @ + h.faillog,
                                           !.outcome = IF ok THEN "ok" ELSE "error"])
    /\ UNCHANGED <<bk, _partition_threshold_bytes, _rows_count_threshold, _running, _stats,
                   qctx, ncalls, nstops, call, crashed>>

Resolved(t) == t.st \in {"none", "done", "failed"}

\* .then([above_threshold] { return above_threshold; }) (lines 45-47): runs
\* when the with_sem() future has resolved, and only if it did not fail.
record_resolved_early(i) == task[i]["record"].st \in {"inflight", "done", "failed"}
record_resolved(i) == Resolved(task[i]["record"])

record_return(i) ==
    /\ crashed = "no"
    /\ call[i].op = "record"
    /\ call[i].state = "pending"
    /\ record_resolved(i)
    /\ call' = [call EXCEPT ![i] =
                  IF task[i]["record"].st = "failed"
                  THEN [call[i] EXCEPT !.state = "failed"]
                  ELSE [call[i] EXCEPT !.state = "returned",
                                       !.verdict = call[i].above_threshold]]
    /\ UNCHANGED <<bk, _partition_threshold_bytes, _rows_count_threshold, _running, _sem,
                   _stats, qctx, ncalls, nstops, task, stopc, crashed>>

\* when_all(large_partitions, large_rows, large_cells).discard_result()
\* (line 98): resolves when all three have, whatever their results.
when_all_first(i) == Resolved(task[i]["LARGE_PARTITIONS"])
when_all(i) == \A n \in 1..Len(DeleteSlots) : Resolved(task[i][DeleteSlots[n]])

delete_return(i) ==
    /\ crashed = "no"
    /\ call[i].op = "delete"
    /\ call[i].state = "pending"
    /\ when_all(i)
    /\ call' = [call EXCEPT ![i].state = "returned"]
    /\ UNCHANGED <<bk, _partition_threshold_bytes, _rows_count_threshold, _running, _sem,
                   _stats, qctx, ncalls, nstops, task, stopc, crashed>>

\* The environment tears the query context down (the FIXME of lines 104-105).
qctx_reset ==
    /\ crashed = "no"
    /\ qctx
    /\ qctx' = FALSE
    /\ UNCHANGED <<bk, _partition_threshold_bytes, _rows_count_threshold, _running, _sem,
                   _stats, ncalls, nstops, call, task, stopc, crashed>>

Next ==
    \/ start
    \/ \E k \in StopIds : stop(k)
    \/ \E i \in CallIds, in \in PartitionInputs :
          maybe_record_large_partitions(i, in[1], in[2])
    \/ \E i \in CallIds, sst \in SSTables : maybe_delete_large_data_entries(i, sst)
    \/ \E i \in CallIds : run_record(i)
    \/ \E i \in CallIds, s \in Slots : run_delete(i, s)
    \/ \E i \in CallIds, s \in Slots, ok \in BOOLEAN : execute_cql_done(i, s, ok)
    \/ \E i \in CallIds : record_return(i)
    \/ \E i \in CallIds : delete_return(i)
    \/ qctx_reset

Spec == Init /\ [][Next]_vars

\* ------------------------------------------------- the backend on its own
\* The record operations of cql_table_large_data_handler called directly, as
\* with_sem's func calls them, one call per behaviour: the arguments (in),
\* whether db::qctx was null, what try_record built (r), and the state of the
\* returned future.
backend_call(op, in, r) ==
    /\ crashed = "no"
    /\ bk.state = "none"
    /\ bk' = [op |-> op, in |-> in, noqctx |-> ~qctx, r |-> r, faillog |-> 0,
              state |-> IF r.issued THEN "inflight" ELSE "done"]
    /\ UNCHANGED <<_partition_threshold_bytes, _rows_count_threshold, _running, _sem,
                   _stats, qctx, ncalls, nstops, call, task, stopc, crashed>>

call_record_large_partitions(partition_size, rows) ==
    backend_call("partition",
                 [size |-> partition_size, rows |-> rows, ck |-> NoKey, cdef |-> NoKey],
                 record_large_partitions(partition_size, rows))

call_record_large_rows(clustering_key, row_size) ==
    backend_call("row",
                 [size |-> row_size, rows |-> 0, ck |-> clustering_key, cdef |-> NoKey],
                 record_large_rows(clustering_key, row_size))

call_record_large_cells(clustering_key, cdef, cell_size) ==
    backend_call("cell",
                 [size |-> cell_size, rows |-> 0, ck |-> clustering_key, cdef |-> cdef],
                 record_large_cells(clustering_key, cdef, cell_size))

\* execute_cql of the direct call resolves (lines 125-130).
backend_cql_done(ok) ==
    /\ crashed = "no"
    /\ bk.state = "inflight"
    /\ LET h == handle_exception(ok)
       IN bk' = [bk EXCEPT !.state = h.resolved, !.faillog = @ + h.faillog]
    /\ UNCHANGED <<_partition_threshold_bytes, _rows_count_threshold, _running, _sem,
                   _stats, qctx, ncalls, nstops, call, task, stopc, crashed>>

NextBackend ==
    \/ \E in \in PartitionInputs : call_record_large_partitions(in[1], in[2])
    \/ \E ck \in ClusteringKeys, size \in RecordSizes : call_record_large_rows(ck, size)
    \/ \E ck \in ClusteringKeys, cdef \in Columns, size \in RecordSizes :
          call_record_large_cells(ck, cdef, size)
    \/ \E ok \in BOOLEAN : backend_cql_done(ok)
    \/ qctx_reset

SpecBackend == Init /\ [][NextBackend]_vars

\* ------------------------------------------------------------ scheduling
\* The reactor runs every ready continuation and every execute_cql resolves
\* in the end; calls of start(), stop() and of the two policy operations are
\* up to the owner.  The query context stays up; one record input over the
\* threshold and two sstables (all categories flagged, rows only) keep every
\* limiter interleaving.
FairPartitionInputs == { <<1500, 5>> }
FairSSTables ==
    { MkSST("above", "above", "above", "above"),
      MkSST("absent", "absent", "above", "absent") }

NextFair ==
    \/ start
    \/ \E k \in StopIds : stop(k)
    \/ \E i \in CallIds, in \in FairPartitionInputs :
          maybe_record_large_partitions(i, in[1], in[2])
    \/ \E i \in CallIds, sst \in FairSSTables : maybe_delete_large_data_entries(i, sst)
    \/ \E i \in CallIds : run_record(i)
    \/ \E i \in CallIds, s \in Slots : run_delete(i, s)
    \/ \E i \in CallIds, s \in Slots, ok \in BOOLEAN : execute_cql_done(i, s, ok)
    \/ \E i \in CallIds : record_return(i)
    \/ \E i \in CallIds : delete_return(i)

Fairness ==
    /\ \A i \in CallIds :
          /\ WF_vars(run_record(i))
          /\ WF_vars(record_return(i))
          /\ WF_vars(delete_return(i))
    /\ \A i \in CallIds, s \in Slots :
          /\ WF_vars(run_delete(i, s))
          /\ WF_vars(\E ok \in BOOLEAN : execute_cql_done(i, s, ok))

FairSpec == Init /\ [][NextFair]_vars /\ Fairness

\* ------------------------------------------------ nop_large_data_handler
\* The constructor (lines 19-24) hands numeric_limits<uint64_t>::max() to the
\* base class for every threshold and calls start().
nop_threshold_signed == 2^(Bits - 1) - 1
nop_threshold == UINT64_MAX

InitNop ==
    /\ _partition_threshold_bytes = nop_threshold
    /\ _rows_count_threshold = nop_threshold
    /\ _running = TRUE
    /\ _sem = [count |-> max_concurrency, wait_list |-> <<>>]
    /\ _stats = 0
    /\ qctx = TRUE
    /\ ncalls = 0
    /\ nstops = 0
    /\ call = [i \in CallIds |-> NoCall]
    /\ task = [i \in CallIds |-> [s \in Slots |-> NoTask]]
    /\ stopc = [k \in StopIds |-> NoStop]
    /\ crashed = "no"
    /\ bk = NoBk

\* The (partition_size, rows) arguments given to the nop handler: up to the
\* largest uint64_t and the one before it.
NopInputs ==
    { <<0, 0>>, <<1500, 11>>, <<UINT64_MAX - 1, 0>>, <<0, UINT64_MAX - 1>>,
      <<UINT64_MAX, UINT64_MAX>>, <<UINT64_MAX - 1, UINT64_MAX>> }

NextNop ==
    \/ start
    \/ \E k \in StopIds : stop(k)
    \/ \E i \in CallIds, in \in NopInputs :
          maybe_record_large_partitions(i, in[1], in[2])
    \/ qctx_reset

SpecNop == InitNop /\ [][NextNop]_vars

\* ================================================================ claims
TaskFinished(t) == t.st \in {"done", "failed"} /\ t.units = 0

\* C1: a stop() made while the handler is running is complete only when every
\* call that passed its running check before it has had each of its tasks
\* acquire the limiter, call the backend operation and give its unit back;
\* this includes the tasks that were still queued on the limiter.
C1_StopDrainsEarlierCalls ==
    \A k \in StopIds :
        stopc[k].state = "drained" =>
            \A i \in 1..stopc[k].seen :
                /\ call[i].state # "aborted"
                /\ \A s \in Slots :
                      task[i][s].st # "none" =>
                          /\ TaskFinished(task[i][s])
                          /\ task[i][s].acquired = 1
                          /\ task[i][s].invoked = 1

\* A drained stop() that was called while tasks were queued on the limiter
\* and others had their backend call pending.
C1_Witness ==
    \E k \in StopIds :
        /\ stopc[k].state = "drained"
        /\ stopc[k].queued
        /\ \E i \in 1..stopc[k].seen, s \in Slots : task[i][s].cql = 1

\* Some stop() has found the handler running and set _running = false.
stop_flipped == \E k \in StopIds : stopc[k].state \in {"draining", "drained"}

\* C2 as stated: once a stop() has flipped the handler to stopped, every
\* later policy call hits the assertion and changes neither the limiter, the
\* counter nor any task.
C2_CallsAfterStopAssert ==
    [][(stop_flipped /\ ncalls' # ncalls) =>
          /\ crashed' = "assert"
          /\ call'[ncalls'].state = "aborted"
          /\ _sem' = _sem
          /\ _stats' = _stats
          /\ task' = task]_vars

\* C2 amended: the same for every policy call made while the handler is
\* stopped, that is with no start() since the stop().
C2_CallsWhileStoppedAssert ==
    [][(stop_flipped /\ ~_running /\ ncalls' # ncalls) =>
          /\ crashed' = "assert"
          /\ call'[ncalls'].state = "aborted"
          /\ _sem' = _sem
          /\ _stats' = _stats
          /\ task' = task]_vars

\* A call made after a stop() has died on the assertion.
C2_Witness ==
    /\ stop_flipped
    /\ ~_running
    /\ crashed = "assert"
    /\ \E i \in CallIds : call[i].state = "aborted"

\* C3: a maybe_record_large_partitions call over either threshold has
\* returned only when its record task has acquired one unit, called the
\* backend partition record once with the size and the row count as passed,
\* and given the unit back; the verdict tells which thresholds were crossed.
C3_RecordThenVerdict ==
    \A i \in CallIds :
        (/\ call[i].op = "record"
         /\ call[i].state = "returned"
         /\ (call[i].size > _partition_threshold_bytes \/ call[i].rows > _rows_count_threshold)) =>
            LET t == task[i]["record"]
            IN /\ t.st = "done"
               /\ t.acquired = 1
               /\ t.units = 0
               /\ t.invoked = 1
               /\ t.args = <<call[i].size, call[i].rows>>
               /\ t.cql <= 1
               /\ t.cql = 1 => /\ t.fields = <<"rows">>
                               /\ Len(t.values) = 2
                               /\ call[i].size < 2^(Bits - 1) => t.values[1] = call[i].size
                               /\ call[i].rows < 2^(Bits - 1) => t.values[2] = call[i].rows
               /\ call[i].verdict = [size |-> call[i].size > _partition_threshold_bytes,
                                     rows |-> call[i].rows > _rows_count_threshold]

\* The example: thresholds 1000 and 10, size 1500, 5 rows.
C3_Witness ==
    \E i \in CallIds :
        /\ call[i].op = "record"
        /\ call[i].state = "returned"
        /\ call[i].size = 1500
        /\ call[i].rows = 5
        /\ call[i].verdict = [size |-> TRUE, rows |-> FALSE]
        /\ task[i]["record"].cql = 1
        /\ task[i]["record"].values = <<1500, 5>>

\* C4: a maybe_record_large_partitions call on a running handler with the
\* size and the row count at or below their thresholds returns the zero
\* verdict within the call and leaves limiter, tasks and counter alone.
C4_BelowThresholdsNoop ==
    [][\A i \in CallIds :
          (/\ ncalls' = i
           /\ ncalls = i - 1
           /\ _running
           /\ call'[i].op = "record"
           /\ call'[i].size <= _partition_threshold_bytes
           /\ call'[i].rows <= _rows_count_threshold) =>
              /\ call'[i].state = "returned"
              /\ call'[i].verdict = [size |-> FALSE, rows |-> FALSE]
              /\ _sem' = _sem
              /\ task' = task
              /\ _stats' = _stats]_vars

\* A call with both magnitudes equal to their thresholds has returned.
C4_Witness ==
    \E i \in CallIds :
        /\ call[i].op = "record"
        /\ call[i].state = "returned"
        /\ call[i].size = _partition_threshold_bytes
        /\ call[i].rows = _rows_count_threshold

\* C5: the call adds one to the counter exactly when the size is over its
\* threshold, whatever the row count; the verdict it computes, and the one it
\* returns, has size and rows set exactly for the thresholds crossed.
C5_VerdictAndCounter ==
    /\ [][\A i \in CallIds :
             (ncalls' = i /\ ncalls = i - 1 /\ _running /\ call'[i].op = "record") =>
                 /\ call'[i].above_threshold =
                        [size |-> call'[i].size > _partition_threshold_bytes,
                         rows |-> call'[i].rows > _rows_count_threshold]
                 /\ call'[i].size > _partition_threshold_bytes => _stats' = _stats + 1
                 /\ call'[i].size <= _partition_threshold_bytes => _stats' = _stats]_vars
    /\ [](\A i \in CallIds :
             (call[i].op = "record" /\ call[i].state = "returned") =>
                 /\ call[i].verdict.size = (call[i].size > _partition_threshold_bytes)
                 /\ call[i].verdict.rows = (call[i].rows > _rows_count_threshold))

\* One call over the row-count threshold only and one over both have
\* returned; the counter went up once.
C5_Witness ==
    \E i, j \in CallIds :
        /\ call[i].state = "returned" /\ call[i].verdict = [size |-> FALSE, rows |-> TRUE]
        /\ call[j].state = "returned" /\ call[j].verdict = [size |-> TRUE, rows |-> TRUE]
        /\ _stats = 1

\* C6: at most max_concurrency tasks hold a limiter unit, and so at most that
\* many backend operations are pending; a task has its backend operation
\* called only while it holds a unit, and a task queued on the limiter holds
\* none and has not been issued.
C6_LimiterBoundsInFlight ==
    LET Tasks == CallIds \X Slots
        Holders == {x \in Tasks : task[x[1]][x[2]].st \in {"granted", "inflight"}}
        Pending == {x \in Tasks : task[x[1]][x[2]].st = "inflight"}
    IN /\ Cardinality(Holders) <= max_concurrency
       /\ Cardinality(Pending) <= max_concurrency
       /\ \A x \in Holders : task[x[1]][x[2]].units = 1 /\ task[x[1]][x[2]].acquired = 1
       /\ \A x \in Tasks :
             LET t == task[x[1]][x[2]]
             IN /\ t.st = "waiting" => (t.units = 0 /\ t.invoked = 0 /\ t.cql = 0)
                /\ t.invoked > 0 => t.acquired = 1

\* The limiter is exhausted by pending backend operations of both kinds while
\* another task is queued.
C6_Witness ==
    /\ _sem.count = 0
    /\ \E i, j \in CallIds :
          /\ task[i]["record"].st = "inflight"
          /\ \E s \in DeleteSlotSet : task[j][s].st = "inflight"
          /\ \E s \in DeleteSlotSet : task[j][s].st = "waiting"
    /\ \A k \in StopIds : stopc[k].state = "idle"

\* C7: maybe_delete_large_data_entries has returned only when each delete it
\* wanted has acquired its own unit, has been issued once, has resolved and
\* has given the unit back; a delete that failed left one failure line and
\* the call still returned, the other deletes having been issued and awaited.
C7_DeleteJoinsAll ==
    \A i \in CallIds :
        /\ call[i].op = "delete" => call[i].state # "failed"
        /\ (call[i].op = "delete" /\ call[i].state = "returned") =>
              \A s \in DeleteSlotSet :
                  LET t == task[i][s]
                  IN /\ t.st \in {"none", "done"}
                     /\ t.units = 0
                     /\ t.st = "done" => (t.acquired = 1 /\ t.invoked = 1 /\ t.cql = 1)
                     /\ t.outcome = "error" => t.faillog = 1
                     /\ t.outcome = "ok" => t.faillog = 0

\* A delete call over all three tables returned although one of its deletes
\* failed.
C7_Witness ==
    \E i \in CallIds :
        /\ call[i].op = "delete"
        /\ call[i].state = "returned"
        /\ task[i]["LARGE_PARTITIONS"].outcome = "ok"
        /\ task[i]["LARGE_ROWS"].outcome = "error"
        /\ task[i]["LARGE_CELLS"].outcome = "ok"

\* C8: the deletes of a maybe_delete_large_data_entries call are those of the
\* flagged categories, one each: the partitions table when the file is
\* flagged for partition size or rows in partition, the rows table when
\* flagged for row size, the cells table when flagged for cell size.
C8_Flagged(sst, s) ==
    CASE s = "LARGE_PARTITIONS" ->
            sst.partition_size = "above" \/ sst.rows_in_partition = "above"
      [] s = "LARGE_ROWS" -> sst.row_size = "above"
      [] s = "LARGE_CELLS" -> sst.cell_size = "above"

C8_DeletesMatchFlags ==
    \A i \in CallIds :
        call[i].op = "delete" =>
            /\ task[i]["record"].st = "none"
            /\ \A s \in DeleteSlotSet :
                  /\ task[i][s].invoked <= 1
                  /\ ~C8_Flagged(call[i].sst, s) =>
                        (task[i][s].st = "none" /\ task[i][s].invoked = 0)
                  /\ (C8_Flagged(call[i].sst, s) /\ call[i].state = "pending") =>
                        task[i][s].st # "none"
                  /\ (C8_Flagged(call[i].sst, s) /\ call[i].state = "returned") =>
                        task[i][s].invoked = 1

\* The two examples: a file flagged for rows only, and one flagged for
\* partitions and cells but not rows.
C8_Witness ==
    \E i, j \in CallIds :
        /\ call[i].state = "returned"
        /\ call[i].sst = MkSST("absent", "absent", "above", "absent")
        /\ task[i]["LARGE_ROWS"].invoked = 1
        /\ task[i]["LARGE_PARTITIONS"].invoked = 0
        /\ task[i]["LARGE_CELLS"].invoked = 0
        /\ call[j].state = "returned"
        /\ call[j].sst = MkSST("above", "absent", "below", "above")
        /\ task[j]["LARGE_PARTITIONS"].invoked = 1
        /\ task[j]["LARGE_ROWS"].invoked = 0
        /\ task[j]["LARGE_CELLS"].invoked = 1

\* C9: when the write of a record fails, the record task still resolves
\* without an exception after one execute_cql and one failure line, with its
\* unit given back, and the call can return its verdict; it never fails.
C9_WriteFailureSwallowed ==
    \A i \in CallIds :
        call[i].op = "record" =>
            /\ call[i].state # "failed"
            /\ task[i]["record"].outcome = "error" =>
                  /\ task[i]["record"].st = "done"
                  /\ task[i]["record"].units = 0
                  /\ task[i]["record"].cql = 1
                  /\ task[i]["record"].faillog = 1
                  /\ call[i].state \in {"pending", "returned"}
                  /\ call[i].state = "returned" =>
                        call[i].verdict = call[i].above_threshold
                  /\ (call[i].state = "pending" /\ crashed = "no") =>
                        ENABLED record_return(i)

\* A record call whose write failed has returned its verdict.
C9_Witness ==
    \E i \in CallIds :
        /\ call[i].op = "record"
        /\ call[i].state = "returned"
        /\ call[i].verdict.size
        /\ task[i]["record"].outcome = "error"
        /\ task[i]["record"].faillog = 1

\* C10: a delete_large_data_entries call made without the query context
\* issues no delete and faults nothing.
C10_DeleteToleratesNoQctx ==
    \A i \in CallIds : \A s \in DeleteSlotSet :
        (task[i][s].invoked > 0 /\ task[i][s].noqctx) =>
            /\ task[i][s].cql = 0
            /\ crashed # "segv"

\* A stop() call is made in this step, as the k-th.
StopStep(k) == nstops = k - 1 /\ nstops' = k

\* The tasks that hold a limiter unit.
Holding == {x \in CallIds \X Slots : task[x[1]][x[2]].units > 0}

\* C13: a stop() on a handler that is not running (never started, stopped, or
\* with an earlier stop() still draining) is complete within the call, does
\* not queue on the limiter and leaves the running flag, the limiter and the
\* tasks as they were.
C13_StopWhenNotRunning ==
    [][\A k \in StopIds :
          (StopStep(k) /\ ~_running) =>
              /\ stopc'[k].state = "ready"
              /\ _sem' = _sem
              /\ _running' = _running
              /\ task' = task
              /\ crashed' = crashed]_vars

\* A second stop() has returned while the first is still queued on the
\* limiter.
C13_Witness ==
    \E k, j \in StopIds :
        /\ stopc[k].state = "draining"
        /\ stopc[j].state = "ready"
        /\ \E n \in 1..Len(_sem.wait_list) : _sem.wait_list[n].who = StopWho(k)
        /\ ~_running

\* C14 as stated: a stop() made while an earlier stop() is still draining
\* dies on an assertion.
C14_SecondStopFatal ==
    [][\A k \in StopIds :
          (StopStep(k) /\ \E j \in StopIds : stopc[j].state = "draining") =>
              crashed' = "assert"]_vars

\* C14 amended: no stop() call fails an assertion; a stop() that found the
\* handler running is complete only when no task holds a limiter unit.
C14_OnlyDrainedStopSeesNoUnits ==
    /\ [][\A k \in StopIds : StopStep(k) => crashed' = "no"]_vars
    /\ [](\A k \in StopIds : stopc[k].state = "drained" => Holding = {})

\* A second stop() has completed while the first is draining and a backend
\* operation still holds its unit.
C14_Witness ==
    /\ crashed = "no"
    /\ stopc[1].state = "draining"
    /\ stopc[2].state = "ready"
    /\ \E x \in Holding : task[x[1]][x[2]].st = "inflight"

\* C15: until a stop() is granted its drain, the available units and the
\* units held by tasks add up to the capacity; a task holds exactly one unit
\* from its grant until its backend operation has resolved, with success or
\* failure, and none before or after; with nothing held the limiter is full.
C15_LimiterConservation ==
    LET Drained == {k \in StopIds : stopc[k].state = "drained"}
    IN /\ Drained = {} =>
             /\ _sem.count + Cardinality(Holding) = max_concurrency
             /\ _sem.count >= 0
             /\ _sem.count <= max_concurrency
             /\ Holding = {} => _sem.count = max_concurrency
       /\ \A i \in CallIds, s \in Slots :
             LET t == task[i][s]
             IN /\ t.units \in {0, 1}
                /\ t.st \in {"granted", "inflight"} <=> t.units = 1
                /\ t.cql > 0 /\ t.st = "inflight" => t.units = 1
                /\ t.st \in {"done", "failed"} => (t.units = 0 /\ t.acquired = 1)
                /\ t.st \in {"none", "waiting"} => t.acquired = 0

\* All units are back after a write that succeeded and a delete that failed.
C15_Witness ==
    /\ _sem.count = max_concurrency
    /\ Holding = {}
    /\ \E i, j \in CallIds :
          /\ task[i]["record"].outcome = "ok"
          /\ \E s \in DeleteSlotSet : task[j][s].outcome = "error"
    /\ \A k \in StopIds : stopc[k].state # "drained"

\* C17: once a stop() is drained it stays drained and the limiter has no unit
\* left; the tasks of any call made after that stop() (after a start()) stay
\* queued on the limiter and never reach the backend.
C17_StopIsTerminal ==
    /\ [](\A k \in StopIds :
             stopc[k].state = "drained" =>
                 /\ _sem.count = 0
                 /\ \A i \in CallIds, s \in Slots :
                       i > stopc[k].seen =>
                           /\ task[i][s].st \in {"none", "waiting"}
                           /\ task[i][s].invoked = 0
                           /\ task[i][s].cql = 0)
    /\ [][\A k \in StopIds :
             stopc[k].state = "drained" => stopc'[k].state = "drained"]_vars

\* The handler was started again after a drained stop() and a record is
\* queued on the limiter.
C17_Witness ==
    \E k \in StopIds, i \in CallIds :
        /\ stopc[k].state = "drained"
        /\ _running
        /\ i > stopc[k].seen
        /\ call[i].state = "pending"
        /\ task[i]["record"].st = "waiting"

\* C18: the partitions-table delete exists exactly when the file has a
\* partition-size or a rows-in-partition entry that is above threshold, the
\* rows-table delete exactly for such a row-size entry and the cells-table
\* delete exactly for such a cell-size entry; a missing entry and an entry
\* below threshold do not count, and no table gets two deletes.
C18_DeleteIffFlag ==
    \A i \in CallIds :
        (call[i].op = "delete" /\ call[i].state \in {"pending", "returned"}) =>
            /\ task[i]["LARGE_PARTITIONS"].st # "none" <=>
                  (call[i].sst.partition_size = "above"
                   \/ call[i].sst.rows_in_partition = "above")
            /\ task[i]["LARGE_ROWS"].st # "none" <=> call[i].sst.row_size = "above"
            /\ task[i]["LARGE_CELLS"].st # "none" <=> call[i].sst.cell_size = "above"
            /\ \A s \in DeleteSlotSet : task[i][s].acquired <= 1 /\ task[i][s].cql <= 1

\* A file flagged for rows in partition only, with the other entries below
\* threshold, got its partitions-table delete and no other.
C18_Witness ==
    \E i \in CallIds :
        /\ call[i].state = "returned"
        /\ call[i].sst = MkSST("below", "above", "below", "below")
        /\ task[i]["LARGE_PARTITIONS"].cql = 1
        /\ task[i]["LARGE_ROWS"].st = "none"
        /\ task[i]["LARGE_CELLS"].st = "none"

\* C19: the counter never goes down; it changes only in a
\* maybe_record_large_partitions call that passed the running check with a
\* size over the threshold, by one, in the call itself: it counts those calls
\* whether their record is queued, skipped for want of a query context,
\* failed or done.
C19_CounterMonotone ==
    /\ [][\/ _stats' = _stats
          \/ /\ _stats' = _stats + 1
             /\ ncalls' = ncalls + 1
             /\ call'[ncalls'].op = "record"
             /\ call'[ncalls'].size > _partition_threshold_bytes]_vars
    /\ [](_stats = Cardinality({i \in CallIds :
                                   /\ call[i].op = "record"
                                   /\ call[i].state # "aborted"
                                   /\ call[i].size > _partition_threshold_bytes}))

\* The counter is at two with one record still queued on the limiter and the
\* other skipped for want of a query context.
C19_Witness ==
    /\ _stats = 2
    /\ \E i, j \in CallIds :
          /\ task[i]["record"].st = "waiting"
          /\ task[j]["record"].st = "done"
          /\ task[j]["record"].noqctx


\* C11: a record operation (large partition, large row or large cell) called
\* while the query context is missing has completed with success at once,
\* with no statement built, no value bound, no "Writing large" line and no
\* failure line.
C11_NoQctxSilentNoop ==
    (bk.state # "none" /\ bk.noqctx) =>
        /\ bk.state = "done"
        /\ bk.r.placeholders = <<>>
        /\ bk.r.bound = <<>>
        /\ bk.r.writelog = 0
        /\ bk.faillog = 0

C11_Witness ==
    /\ bk.state = "done" /\ bk.noqctx
    /\ bk.op = "cell" /\ bk.in.ck # NoKey

\* C20: in every statement a record operation issues, the placeholders are
\* 6 plus one per extra field name, as many as the values bound; the extra
\* column names are those of the category, in order (partition: rows; row:
\* clustering_key; cell: clustering_key, column_name), and the values bound
\* after the six common ones are the values of these columns in the same
\* order, the clustering key being the null value when it is absent.
C20_ExtraNames ==
    [partition |-> <<"rows">>, row |-> <<"clustering_key">>,
     cell |-> <<"clustering_key", "column_name">>]

C20_StatementMatchesValues ==
    (bk.state # "none" /\ ~bk.noqctx) =>
        LET r == bk.r
            names == C20_ExtraNames[bk.op]
            ck_value == IF bk.in.ck = NoKey THEN [null |-> "utf8_type"]
                        ELSE [text |-> bk.in.ck]
        IN /\ Len(r.placeholders) = 6 + Len(names)
           /\ Len(r.bound) = Len(r.placeholders)
           /\ Len(r.columns) = Len(r.placeholders)
           /\ SubSeq(r.columns, 7, Len(r.columns)) = names
           /\ bk.op = "partition" =>
                 (bk.in.rows < 2^(Bits - 1) => r.bound[7] = bk.in.rows)
           /\ bk.op = "row" => r.bound[7] = ck_value
           /\ bk.op = "cell" =>
                 r.bound[7] = ck_value /\ r.bound[8] = [text |-> bk.in.cdef.name]

C20_Witness ==
    /\ bk.state = "done" /\ ~bk.noqctx
    /\ bk.op = "cell" /\ bk.in.ck = NoKey
    /\ Len(bk.r.bound) = 8


\* C12: the nop handler has every threshold at the largest uint64_t and is
\* running from construction until stop() is called; each of its
\* maybe_record_large_partitions calls that passed the running check, whatever
\* the size and the row count, has returned the zero verdict within the call,
\* with no limiter unit taken, no record task and no backend call.
C12_NopNeverRecords ==
    /\ _partition_threshold_bytes = 2^Bits - 1
    /\ _rows_count_threshold = 2^Bits - 1
    /\ nstops = 0 => _running
    /\ \A i \in CallIds :
          (call[i].op = "record" /\ call[i].state # "aborted") =>
              /\ call[i].state = "returned"
              /\ call[i].verdict = [size |-> FALSE, rows |-> FALSE]
              /\ task[i]["record"].st = "none"
              /\ task[i]["record"].units = 0
              /\ task[i]["record"].invoked = 0
              /\ task[i]["record"].cql = 0
    /\ \A x \in CallIds \X Slots : task[x[1]][x[2]].units = 0

\* Without any start(), a call with both magnitudes at the largest value and
\* one with the size one below it have returned.
C12_Witness ==
    /\ nstops = 0
    /\ call[1].state = "returned"
    /\ call[1].size = 2^Bits - 1 /\ call[1].rows = 2^Bits - 1
    /\ call[2].state = "returned"
    /\ call[2].size = 2^Bits - 2


\* A stop() that found the handler running and took or queued for the units.
C16_Flipped(k) == stopc[k].state \in {"draining", "drained"}

\* C16 as stated: with every continuation run and every backend call
\* resolved in the end, each task waiting for the limiter is finished in the
\* end and each stop() waiting for the drain is drained in the end (or the
\* process has aborted).
C16_Progress ==
    /\ \A i \in CallIds, s \in Slots :
          (task[i][s].st = "waiting") ~>
              ((task[i][s].st \in {"done", "failed"} /\ task[i][s].units = 0)
               \/ crashed # "no")
    /\ \A k \in StopIds :
          (stopc[k].state = "draining") ~> (stopc[k].state = "drained" \/ crashed # "no")

\* C16 (amended): the same progress for the tasks of calls made before every
\* stop() that flipped the handler, and for the first stop() that flipped it.
C16_ProgressBeforeStop ==
    /\ \A i \in CallIds, s \in Slots :
          (/\ task[i][s].st = "waiting"
           /\ \A k \in StopIds : C16_Flipped(k) => i <= stopc[k].seen) ~>
              ((task[i][s].st \in {"done", "failed"} /\ task[i][s].units = 0)
               \/ crashed # "no")
    /\ \A k \in StopIds :
          (/\ stopc[k].state = "draining"
           /\ \A j \in StopIds : j < k => ~C16_Flipped(j)) ~>
              (stopc[k].state = "drained" \/ crashed # "no")

\* A stop() called with units held and a task queued on the limiter is
\* drained, every task of the earlier calls finished, with no abort.
C16_Witness ==
    /\ crashed = "no"
    /\ \E k \in StopIds :
          /\ stopc[k].state = "drained"
          /\ stopc[k].queued
          /\ \A j \in StopIds : j < k => ~C16_Flipped(j)
          /\ \E i \in CallIds, s \in Slots : task[i][s].acquired = 1
          /\ \A i \in CallIds, s \in Slots :
                task[i][s].st \in {"none", "done", "failed"}

====
